---- MODULE Spec2Model ----
(***************************************************************************)
(* PASR pre-processing (pasr_v2b.py): the command line, the output path    *)
(* resolution, process_file, the directory batch of process_directory on   *)
(* a multiprocessing Pool, and scale_image.                                *)
(*                                                                         *)
(* A path is a sequence of one-character strings, so that endswith, lower, *)
(* os.path.splitext, os.path.join and os.path.normpath are computed on the *)
(* characters as Python computes them.                                     *)
(***************************************************************************)
EXTENDS Integers, Sequences, FiniteSets, TLC

(***************************************************************************)
(* Bounds of the model.                                                    *)
(***************************************************************************)
\* longest directory listing of the main specification
MaxFiles == 2
\* longest directory listing of the batch specification (SpecBatch)
MaxBatchFiles == 5
\* largest worker count (-n/--n_cores)
MaxCores == 2
\* largest extent of an image buffer along each axis (SpecScale)
MaxFrames == 2
MaxHeight == 2
MaxWidth == 2

(***************************************************************************)
(* Program constants: argparse's choices=range(2, 5) for --scale.          *)
(***************************************************************************)
MinScale == 2
MaxScale == 4

Scales == MinScale..MaxScale
\* the ranks (ndim) a file decodes to: 2, 3, and 4 for every other rank
Ranks == {2, 3, 4}

(***************************************************************************)
(* Python str operations.                                                  *)
(***************************************************************************)
UpperAlpha == <<"A","B","C","D","E","F","G","H","I","J","K","L","M",
                "N","O","P","Q","R","S","T","U","V","W","X","Y","Z">>
LowerAlpha == <<"a","b","c","d","e","f","g","h","i","j","k","l","m",
                "n","o","p","q","r","s","t","u","v","w","x","y","z">>
DigitChars == <<"0","1","2","3","4","5","6","7","8","9">>

\* str.lower() on one character
LowerChar(c) ==
    IF \E i \in 1..Len(UpperAlpha) : UpperAlpha[i] = c
    THEN LowerAlpha[CHOOSE i \in 1..Len(UpperAlpha) : UpperAlpha[i] = c]
    ELSE c

\* str.lower()
Lower(s) == [i \in 1..Len(s) |-> LowerChar(s[i])]

\* str.endswith(suffix)
EndsWith(s, suf) ==
    /\ Len(s) >= Len(suf)
    /\ SubSeq(s, Len(s) - Len(suf) + 1, Len(s)) = suf

\* str.endswith((suffix, suffix, ...))
EndsWithAny(s, sufs) == \E suf \in sufs : EndsWith(s, suf)

\* str.rfind(c) + 1: the last position of c in s, 0 when there is none
RFind(s, c) ==
    IF \E i \in 1..Len(s) : s[i] = c
    THEN CHOOSE i \in 1..Len(s) : s[i] = c /\ \A j \in (i+1)..Len(s) : s[j] # c
    ELSE 0

\* f"{n}" of a non-negative int
RECURSIVE IntToStr(_)
IntToStr(n) ==
    IF n < 10 THEN <<DigitChars[n + 1]>>
    ELSE IntToStr(n \div 10) \o <<DigitChars[(n % 10) + 1]>>

(***************************************************************************)
(* os.path (posixpath) operations.                                         *)
(***************************************************************************)
\* os.path.splitext(p): <<root, ext>>; leading dots of the name are no extension
SplitExt(p) ==
    LET sepIndex == RFind(p, "/")
        dotIndex == RFind(p, ".")
    IN  IF /\ dotIndex > sepIndex
           /\ \E k \in (sepIndex + 1)..(dotIndex - 1) : p[k] # "."
        THEN <<SubSeq(p, 1, dotIndex - 1), SubSeq(p, dotIndex, Len(p))>>
        ELSE <<p, <<>> >>

\* os.path.basename(p)
Basename(p) == SubSeq(p, RFind(p, "/") + 1, Len(p))

\* os.path.join(a, b)
Join(a, b) ==
    IF Len(b) > 0 /\ b[1] = "/" THEN b
    ELSE IF a = <<>> \/ a[Len(a)] = "/" THEN a \o b
    ELSE a \o <<"/">> \o b

\* str.split("/")
RECURSIVE SplitSlash(_)
SplitSlash(p) ==
    IF \E i \in 1..Len(p) : p[i] = "/"
    THEN LET i == CHOOSE k \in 1..Len(p) : p[k] = "/" /\ \A j \in 1..(k-1) : p[j] # "/"
         IN  <<SubSeq(p, 1, i - 1)>> \o SplitSlash(SubSeq(p, i + 1, Len(p)))
    ELSE <<p>>

\* "/".join(comps)
RECURSIVE JoinSlash(_)
JoinSlash(comps) ==
    IF comps = <<>> THEN <<>>
    ELSE IF Len(comps) = 1 THEN comps[1]
    ELSE comps[1] \o <<"/">> \o JoinSlash(Tail(comps))

\* the component loop of os.path.normpath
RECURSIVE NormComps(_, _, _)
NormComps(comps, new_comps, initial_slashes) ==
    IF comps = <<>> THEN new_comps
    ELSE LET comp == comps[1]
             rest == Tail(comps)
         IN  IF comp = <<>> \/ comp = <<".">>
             THEN NormComps(rest, new_comps, initial_slashes)
             ELSE IF \/ comp # <<".", ".">>
                     \/ (initial_slashes = 0 /\ new_comps = <<>>)
                     \/ (new_comps # <<>> /\ new_comps[Len(new_comps)] = <<".", ".">>)
             THEN NormComps(rest, Append(new_comps, comp), initial_slashes)
             ELSE IF new_comps # <<>>
             THEN NormComps(rest, SubSeq(new_comps, 1, Len(new_comps) - 1), initial_slashes)
             ELSE NormComps(rest, new_comps, initial_slashes)

\* os.path.normpath(path)
NormPath(path) ==
    IF path = <<>> THEN <<".">>
    ELSE LET initial_slashes ==
                 IF path[1] # "/" THEN 0
                 ELSE IF Len(path) >= 2 /\ path[2] = "/" /\ ~(Len(path) >= 3 /\ path[3] = "/")
                 THEN 2 ELSE 1
             body == JoinSlash(NormComps(SplitSlash(path), <<>>, initial_slashes))
             res == [i \in 1..initial_slashes |-> "/"] \o body
         IN  IF res = <<>> THEN <<".">> ELSE res

(***************************************************************************)
(* The files and directories of the runs.                                  *)
(***************************************************************************)
EXT_MRC == <<".", "m", "r", "c">>
EXT_MRCS == <<".", "m", "r", "c", "s">>
EXT_TIF == <<".", "t", "i", "f">>
EXT_TIFF == <<".", "t", "i", "f", "f">>
EXT_JPG == <<".", "j", "p", "g">>

\* input files of the single-file runs
FileInputs ==
    { <<"a">> \o EXT_MRC, <<"a">> \o EXT_TIF, <<"b">> \o EXT_JPG,
      <<"s">> \o EXT_MRCS, <<"A", ".", "M", "R", "C">>, <<"c", ".", "t", "x", "t">> }

\* explicit -o values of the single-file runs
FileOutputs ==
    { <<".", "/", "a">> \o EXT_TIF, <<"y">> \o EXT_TIFF, <<"y", ".", "T", "I", "F">>,
      <<"y">> \o EXT_JPG }

\* the entries the input directory may hold
DirNames ==
    { <<"a">> \o EXT_MRC, <<"a">> \o EXT_TIF, <<"c", ".", "t", "x", "t">> }

\* the entries the input directory may hold in the batch specification
BatchNames == DirNames \cup { <<"b">> \o EXT_JPG, <<"s">> \o EXT_MRCS }

\* the input directory, and the -o values of the directory runs
InputDir == <<"d">>
DirOutputs == { <<"d", "/">>, <<"o">>, <<"o">> \o EXT_TIF }

\* the directories that exist
Directories == { <<"d">>, <<"o">> }

\* os.path.isdir(p)
IsDir(p) == NormPath(p) \in Directories

\* the answers typed at the confirmation prompt
Answers == { <<"y">>, <<"Y">>, <<"n">>, <<>> }

Compressions == {"zlib", "lzw"}

\* an optional value: None, or the one value given
NoneOpt == {}
Some(v) == {v}
Val(opt) == CHOOSE v \in opt : TRUE

\* every sequence of distinct elements of S of length at most n
RECURSIVE Listings(_, _)
Listings(S, n) ==
    IF n = 0 THEN { <<>> }
    ELSE { <<>> } \cup
         UNION { { <<x>> \o l : l \in Listings(S \ {x}, n - 1) } : x \in S }

(***************************************************************************)
(* State.                                                                  *)
(***************************************************************************)
VARIABLES
    argv,            \* the parsed command line, as given
    args,            \* the argparse namespace, which __main__ assigns to
    listing,         \* what glob.glob(input_dir/*) returns, in its order
    pc,              \* where __main__ is
    prompts,         \* the answers given to the confirmation prompts raised
    arguments,       \* the jobs: the argument tuples of process_file
    run,             \* per job: how far process_file got, and what it wrote
    chunks,          \* Pool.starmap's task batches (job indices)
    taken,           \* number of batches the workers took from the task queue
    worker,          \* per pool worker: the batch it runs and its position
    original_data,   \* scale: the decoded array
    processed_data,  \* scale: the scaled array
    frame_i,         \* scale: the frame loop's index
    scale_arg,       \* scale: the factor
    spc              \* scale: where the scaling code is

pipe_vars == <<argv, args, listing, pc, prompts, arguments, run, chunks, taken, worker>>
scale_vars == <<original_data, processed_data, frame_i, scale_arg, spc>>
vars == <<argv, args, listing, pc, prompts, arguments, run, chunks, taken, worker,
          original_data, processed_data, frame_i, scale_arg, spc>>

(***************************************************************************)
(* Path Resolver.                                                          *)
(***************************************************************************)
\* f"_PASR_{scale}x"
PasrTag(scale) == <<"_", "P", "A", "S", "R", "_">> \o IntToStr(scale) \o <<"x">>

\* a mutant of DefaultOutput: the tag appended after the extension
DefaultOutput_TagAfterExt(input, scale, keep_basename) ==
    IF keep_basename THEN input ELSE input \o PasrTag(scale)

\* the default output of a single-file run (lines 185-190)
DefaultOutput(input, scale, keep_basename) ==
    LET base_name == SplitExt(input)[1]
        ext == SplitExt(input)[2]
    IN  IF keep_basename THEN base_name \o ext
        ELSE base_name \o PasrTag(scale) \o ext

\* "Overwriting file extension if necessary" (lines 193-201): each flag set
\* replaces the extension in turn
ForceExt(output, force_tif, force_mrc, force_jpg) ==
    LET o1 == IF force_tif THEN SplitExt(output)[1] \o EXT_TIF ELSE output
        o2 == IF force_mrc THEN SplitExt(o1)[1] \o EXT_MRC ELSE o1
        o3 == IF force_jpg THEN SplitExt(o2)[1] \o EXT_JPG ELSE o2
    IN  o3

\* the flip default (lines 148 and 205)
FlipDefault(input_file, output_file) ==
    /\ EndsWithAny(Lower(input_file), {EXT_MRC, EXT_MRCS})
    /\ EndsWithAny(Lower(output_file), {EXT_TIF, EXT_TIFF})

\* the output file of one entry of a directory run (lines 136-146)
DirOutputFile(input_file, output_dir, scale, force_tif, force_mrc, force_jpg, keep_basename) ==
    LET base_name == SplitExt(Basename(input_file))[1]
        ext == SplitExt(Basename(input_file))[2]
    IN  IF keep_basename THEN Join(output_dir, base_name \o ext)
        ELSE IF force_tif THEN Join(output_dir, base_name \o PasrTag(scale) \o EXT_TIF)
        ELSE IF force_mrc THEN Join(output_dir, base_name \o PasrTag(scale) \o EXT_MRC)
        ELSE IF force_jpg THEN Join(output_dir, base_name \o PasrTag(scale) \o EXT_JPG)
        ELSE Join(output_dir, base_name \o PasrTag(scale) \o ext)

\* the loop of process_directory (lines 134-149). flip_tif is the function's
\* own variable ("None", "True" or "False"): the first entry that finds it
\* None assigns it, and the later entries read what was assigned.
RECURSIVE BuildArguments(_, _, _, _, _, _, _, _, _)
BuildArguments(file_list, output_dir, scale, compression, flip_tif, force_tif, force_mrc, force_jpg, keep_basename) ==
    IF file_list = <<>> THEN <<>>
    ELSE LET input_file == file_list[1]
             output_file == DirOutputFile(input_file, output_dir, scale,
                                          force_tif, force_mrc, force_jpg, keep_basename)
             flip_now == IF flip_tif = "None"
                         THEN (IF FlipDefault(input_file, output_file) THEN "True" ELSE "False")
                         ELSE flip_tif
         IN  << [input_file |-> input_file, output_file |-> output_file, scale |-> scale,
                 compression |-> compression, flip_tif |-> (flip_now = "True")] >>
             \o BuildArguments(Tail(file_list), output_dir, scale, compression, flip_now,
                               force_tif, force_mrc, force_jpg, keep_basename)

\* glob.glob(os.path.join(input_dir, "*")): the entries, each joined to the directory
GlobDir(input_dir, names) == [i \in 1..Len(names) |-> Join(input_dir, names[i])]

(***************************************************************************)
(* File Processor: process_file.                                           *)
(***************************************************************************)
\* the input formats process_file reads (lines 67 and 70)
InputSupported(input_file) ==
    EndsWithAny(input_file, {EXT_MRC, EXT_MRCS, EXT_TIF, EXT_TIFF, EXT_JPG})

\* the output format process_file selects (lines 86, 90, 98, 106)
OutputFormat(output_file) ==
    IF EndsWithAny(output_file, {EXT_MRC, EXT_MRCS}) THEN "mrc"
    ELSE IF EndsWithAny(output_file, {EXT_TIF, EXT_TIFF}) THEN "tif"
    ELSE IF EndsWith(output_file, EXT_JPG) THEN "jpg"
    ELSE "unsupported"

\* process_file has not started on the job
NotStarted == [st |-> "pending", ndim |-> 0, written |-> <<>>, flipped |-> FALSE]

\* a mutant of ReadAndScale: no check of the rank (as in pasr_v1.py)
ReadAndScale_NoRankCheck(job, ndim) ==
    IF ~InputSupported(job.input_file)
    THEN [NotStarted EXCEPT !.st = "raised_input"]
    ELSE [NotStarted EXCEPT !.st = "scaled", !.ndim = ndim]

\* reading and scaling (lines 67-83), the file decoding to an array of rank ndim
ReadAndScale(job, ndim) ==
    IF ~InputSupported(job.input_file)
    THEN [NotStarted EXCEPT !.st = "raised_input"]
    ELSE IF ndim = 3 \/ ndim = 2
    THEN [NotStarted EXCEPT !.st = "scaled", !.ndim = ndim]
    ELSE [NotStarted EXCEPT !.st = "raised_dims", !.ndim = ndim]

\* a mutant of WriteOutput: a stack is saved as JPG like an image
WriteOutput_NoStackCheck(job, r) ==
    IF OutputFormat(job.output_file) = "unsupported"
    THEN [r EXCEPT !.st = "raised_output"]
    ELSE [r EXCEPT !.st = "written", !.written = Append(@, job.output_file),
                   !.flipped = (OutputFormat(job.output_file) = "tif" /\ job.flip_tif)]

\* writing the output (lines 86-107)
WriteOutput(job, r) ==
    LET fmt == OutputFormat(job.output_file)
    IN  IF fmt = "mrc"
        THEN [r EXCEPT !.st = "written", !.written = Append(@, job.output_file)]
        ELSE IF fmt = "tif"
        THEN [r EXCEPT !.st = "written", !.written = Append(@, job.output_file),
                       !.flipped = job.flip_tif]
        ELSE IF fmt = "jpg"
        THEN IF r.ndim = 3
             THEN [r EXCEPT !.st = "jpg_stack"]
             ELSE [r EXCEPT !.st = "written", !.written = Append(@, job.output_file)]
        ELSE [r EXCEPT !.st = "raised_output"]

\* process_file raised a ValueError
Raised(r) == r.st \in {"raised_input", "raised_dims", "raised_output"}

\* process_file returned
Returned(r) == r.st \in {"written", "jpg_stack"}

(***************************************************************************)
(* Batch Coordinator: multiprocessing.Pool(n_cores).starmap(process_file,  *)
(* arguments) as CPython runs it. starmap cuts the jobs into task batches  *)
(* of chunksize consecutive jobs; a worker takes the next batch off the    *)
(* task queue and runs its jobs in order; an exception raised by a job     *)
(* ends the worker's batch (the batch's later jobs are never run) and is   *)
(* kept as the batch's result; starmap returns when every batch has        *)
(* reported, and re-raises the first exception kept.                       *)
(***************************************************************************)
\* chunksize, extra = divmod(len(iterable), len(pool) * 4); if extra: chunksize += 1
ChunkSize(n, n_cores) ==
    LET q == n \div (n_cores * 4)
        extra == n % (n_cores * 4)
    IN  IF extra # 0 THEN q + 1 ELSE q

\* the task batches: job indices 1..n in slices of chunksize
TaskBatches(n, n_cores) ==
    IF n = 0 THEN <<>>
    ELSE LET size == ChunkSize(n, n_cores)
             count == (n + size - 1) \div size
         IN  [c \in 1..count |->
                 [k \in 1..(IF c * size <= n THEN size ELSE n - (c - 1) * size) |->
                     (c - 1) * size + k]]

Idle == [chunk |-> 0, pos |-> 0]

\* the job a busy worker is on
JobOf(w) == chunks[worker[w].chunk][worker[w].pos]

\* the worker after its job returned: the batch's next job, or idle
Advance(w) ==
    IF worker[w].pos < Len(chunks[worker[w].chunk])
    THEN [worker[w] EXCEPT !.pos = @ + 1]
    ELSE Idle

(***************************************************************************)
(* __main__ of pasr_v2b.py.                                                *)
(***************************************************************************)
Flags == {"None", "True"}

ArgvFile ==
    [ input : FileInputs, output : {NoneOpt} \cup { Some(o) : o \in FileOutputs },
      scale : Scales, compression : Compressions, n_cores : {1},
      keep_basename : BOOLEAN, flip_tif : Flags,
      force_tif : BOOLEAN, force_mrc : BOOLEAN, force_jpg : BOOLEAN ]

ArgvDir ==
    [ input : {InputDir}, output : {NoneOpt} \cup { Some(o) : o \in DirOutputs },
      scale : Scales, compression : {"lzw"}, n_cores : 1..MaxCores,
      keep_basename : BOOLEAN, flip_tif : Flags,
      force_tif : BOOLEAN, force_mrc : BOOLEAN, force_jpg : BOOLEAN ]

ScaleOff ==
    /\ original_data = <<>>
    /\ processed_data = <<>>
    /\ frame_i = 0
    /\ scale_arg = 0
    /\ spc = "off"

InitWith(a, l) ==
    /\ argv = a
    /\ args = a
    /\ listing = l
    /\ pc = "start"
    /\ prompts = <<>>
    /\ arguments = <<>>
    /\ run = <<>>
    /\ chunks = <<>>
    /\ taken = 0
    /\ worker = <<>>
    /\ ScaleOff

Init ==
    \/ \E a \in ArgvFile : InitWith(a, <<>>)
    \/ \E a \in ArgvDir : \E l \in Listings(DirNames, MaxFiles) : InitWith(a, l)

\* a mutant of Declined: the answer compared as typed
Declined_CaseSensitive(confirm) == confirm # <<"y">>

\* confirm.lower() != 'y' (lines 179 and 210)
Declined(confirm) == Lower(confirm) # <<"y">>

\* lines 171-177: a directory input needs a directory output; the same
\* directory asks for confirmation
DirValidate ==
    /\ pc = "start"
    /\ IsDir(args.input)
    /\ pc' = IF args.output = NoneOpt \/ ~IsDir(Val(args.output)) THEN "raised"
             ELSE IF NormPath(args.input) = NormPath(Val(args.output)) THEN "dir_prompt"
             ELSE "dir_call"
    /\ UNCHANGED <<argv, args, listing, prompts, arguments, run, chunks, taken, worker>>
    /\ UNCHANGED scale_vars

\* lines 178-180: input(...) and exit() unless the answer lowers to "y"
DirConfirm ==
    /\ pc = "dir_prompt"
    /\ \E confirm \in Answers :
         /\ prompts' = Append(prompts, confirm)
         /\ pc' = IF Declined(confirm) THEN "exited" ELSE "dir_call"
    /\ UNCHANGED <<argv, args, listing, arguments, run, chunks, taken, worker>>
    /\ UNCHANGED scale_vars

\* line 182 and process_directory (lines 129-153) up to the pool's start:
\* the listing, the jobs, the pool and its task batches
ProcessDirectory ==
    /\ pc = "dir_call"
    /\ LET file_list == GlobDir(args.input, listing)
           jobs == BuildArguments(file_list, Val(args.output), args.scale,
                                  args.compression, args.flip_tif, args.force_tif,
                                  args.force_mrc, args.force_jpg, args.keep_basename)
       IN  /\ arguments' = jobs
           /\ run' = [j \in 1..Len(jobs) |-> NotStarted]
           /\ chunks' = TaskBatches(Len(jobs), args.n_cores)
    /\ taken' = 0
    /\ worker' = [w \in 1..args.n_cores |-> Idle]
    /\ pc' = "pool"
    /\ UNCHANGED <<argv, args, listing, prompts>>
    /\ UNCHANGED scale_vars

\* an idle worker takes the next batch off the task queue. The workers are
\* identical processes, so of the idle ones the first stands for any of them.
TakeChunk(w) ==
    /\ pc = "pool"
    /\ worker[w] = Idle
    /\ \A v \in DOMAIN worker : v < w => worker[v] # Idle
    /\ taken < Len(chunks)
    /\ taken' = taken + 1
    /\ worker' = [worker EXCEPT ![w] = [chunk |-> taken + 1, pos |-> 1]]
    /\ UNCHANGED <<argv, args, listing, pc, prompts, arguments, run, chunks>>
    /\ UNCHANGED scale_vars

\* a worker reads and scales its job's input; a ValueError ends its batch
WorkerRead(w) ==
    /\ pc = "pool"
    /\ worker[w] # Idle
    /\ run[JobOf(w)].st = "pending"
    /\ \E ndim \in Ranks :
         LET r == ReadAndScale(arguments[JobOf(w)], ndim)
         IN  /\ run' = [run EXCEPT ![JobOf(w)] = r]
             /\ worker' = IF Raised(r) THEN [worker EXCEPT ![w] = Idle] ELSE worker
    /\ UNCHANGED <<argv, args, listing, pc, prompts, arguments, chunks, taken>>
    /\ UNCHANGED scale_vars

\* a worker writes its job's output; a ValueError ends its batch
WorkerWrite(w) ==
    /\ pc = "pool"
    /\ worker[w] # Idle
    /\ run[JobOf(w)].st = "scaled"
    /\ LET r == WriteOutput(arguments[JobOf(w)], run[JobOf(w)])
       IN  /\ run' = [run EXCEPT ![JobOf(w)] = r]
           /\ worker' = [worker EXCEPT ![w] = IF Raised(r) THEN Idle ELSE Advance(w)]
    /\ UNCHANGED <<argv, args, listing, pc, prompts, arguments, chunks, taken>>
    /\ UNCHANGED scale_vars

\* starmap returns, or re-raises a job's exception, once every batch reported
PoolJoin ==
    /\ pc = "pool"
    /\ taken = Len(chunks)
    /\ \A w \in DOMAIN worker : worker[w] = Idle
    /\ pc' = IF \E j \in DOMAIN run : Raised(run[j]) THEN "raised" ELSE "done"
    /\ UNCHANGED <<argv, args, listing, prompts, arguments, run, chunks, taken, worker>>
    /\ UNCHANGED scale_vars

\* lines 184-208: the output path and the flip of a single-file run
FileResolve ==
    /\ pc = "start"
    /\ ~IsDir(args.input)
    /\ LET output0 == IF args.output = NoneOpt
                      THEN DefaultOutput(args.input, args.scale, args.keep_basename)
                      ELSE Val(args.output)
           output == ForceExt(output0, args.force_tif, args.force_mrc, args.force_jpg)
           flip == IF args.flip_tif = "None"
                   THEN (IF FlipDefault(args.input, output) THEN "True" ELSE "False")
                   ELSE args.flip_tif
       IN  /\ args' = [args EXCEPT !.output = Some(output), !.flip_tif = flip]
           /\ pc' = IF NormPath(args.input) = NormPath(output) THEN "file_prompt"
                    ELSE "file_call"
    /\ UNCHANGED <<argv, listing, prompts, arguments, run, chunks, taken, worker>>
    /\ UNCHANGED scale_vars

\* lines 209-211
FileConfirm ==
    /\ pc = "file_prompt"
    /\ \E confirm \in Answers :
         /\ prompts' = Append(prompts, confirm)
         /\ pc' = IF Declined(confirm) THEN "exited" ELSE "file_call"
    /\ UNCHANGED <<argv, args, listing, arguments, run, chunks, taken, worker>>
    /\ UNCHANGED scale_vars

\* line 213 and process_file's lines 67-83
FileRead ==
    /\ pc = "file_call"
    /\ LET job == [input_file |-> args.input, output_file |-> Val(args.output),
                   scale |-> args.scale, compression |-> args.compression,
                   flip_tif |-> (args.flip_tif = "True")]
       IN  /\ arguments' = <<job>>
           /\ \E ndim \in Ranks :
                /\ run' = <<ReadAndScale(job, ndim)>>
                /\ pc' = IF Raised(ReadAndScale(job, ndim)) THEN "raised" ELSE "file_write"
    /\ UNCHANGED <<argv, args, listing, prompts, chunks, taken, worker>>
    /\ UNCHANGED scale_vars

\* process_file's lines 86-107
FileWrite ==
    /\ pc = "file_write"
    /\ LET r == WriteOutput(arguments[1], run[1])
       IN  /\ run' = <<r>>
           /\ pc' = IF Raised(r) THEN "raised" ELSE "done"
    /\ UNCHANGED <<argv, args, listing, prompts, arguments, chunks, taken, worker>>
    /\ UNCHANGED scale_vars

Next ==
    \/ DirValidate
    \/ DirConfirm
    \/ ProcessDirectory
    \/ \E w \in DOMAIN worker : TakeChunk(w)
    \/ \E w \in DOMAIN worker : WorkerRead(w)
    \/ \E w \in DOMAIN worker : WorkerWrite(w)
    \/ PoolJoin
    \/ FileResolve
    \/ FileConfirm
    \/ FileRead
    \/ FileWrite

Spec == Init /\ [][Next]_vars

(***************************************************************************)
(* The batch specification: directory runs with the default options over   *)
(* longer listings, so that starmap's task batches hold several jobs.      *)
(***************************************************************************)
ArgvBatch ==
    [ input : {InputDir}, output : { Some(<<"o">>) },
      scale : {MinScale}, compression : {"lzw"}, n_cores : 1..MaxCores,
      keep_basename : {FALSE}, flip_tif : {"None"},
      force_tif : {FALSE}, force_mrc : {FALSE}, force_jpg : {FALSE} ]

InitBatch ==
    \E a \in ArgvBatch : \E l \in Listings(BatchNames, MaxBatchFiles) : InitWith(a, l)

NextBatch ==
    \/ DirValidate
    \/ ProcessDirectory
    \/ \E w \in DOMAIN worker : TakeChunk(w)
    \/ \E w \in DOMAIN worker : WorkerRead(w)
    \/ \E w \in DOMAIN worker : WorkerWrite(w)
    \/ PoolJoin

SpecBatch == InitBatch /\ [][NextBatch]_vars

(***************************************************************************)
(* Array Scaler: scale_image and the scaling step of process_file, on      *)
(* arrays. An array is its shape and its elements, a function of the       *)
(* index tuples (written 1-based here).                                    *)
(***************************************************************************)
\* the index tuples of an array of the given shape
RECURSIVE IndexSet(_)
IndexSet(shape) ==
    IF shape = <<>> THEN { <<>> }
    ELSE { <<i>> \o rest : i \in 1..shape[1], rest \in IndexSet(Tail(shape)) }

\* array.ndim
Ndim(a) == Len(a.shape)

\* a mutant of NpRepeat: the array repeated as a whole along axis (numpy.tile)
NpRepeat_Tile(a, repeats, axis) ==
    LET shape == [a.shape EXCEPT ![axis + 1] = @ * repeats]
    IN  [ shape |-> shape,
          data |-> [idx \in IndexSet(shape) |->
                       a.data[[idx EXCEPT ![axis + 1] = ((@ - 1) % a.shape[axis + 1]) + 1]]] ]

\* numpy.repeat(a, repeats, axis): each element repeated, consecutively, along axis
\* (axis is 0-based as in the source)
NpRepeat(a, repeats, axis) ==
    LET shape == [a.shape EXCEPT ![axis + 1] = @ * repeats]
    IN  [ shape |-> shape,
          data |-> [idx \in IndexSet(shape) |->
                       a.data[[idx EXCEPT ![axis + 1] = ((@ - 1) \div repeats) + 1]]] ]

\* scale_image (line 50)
scale_image(image, scale) == NpRepeat(NpRepeat(image, scale, 1), scale, 0)

\* original_data[i]: the i-th sub-array along the first axis
Frame(a, i) ==
    [ shape |-> Tail(a.shape),
      data |-> [idx \in IndexSet(Tail(a.shape)) |-> a.data[<<i>> \o idx]] ]

\* processed_data[i] = frame
SetFrame(a, i, frame) ==
    [ a EXCEPT !.data = [idx \in IndexSet(a.shape) |->
                            IF idx[1] = i THEN frame.data[Tail(idx)] ELSE a.data[idx]] ]

\* the arrays a file may decode to: every shape of rank 2 and 3 within the
\* bounds, and rank 4; the elements either all different or a checkerboard
Shapes ==
    { <<h, w>> : h \in 1..MaxHeight, w \in 1..MaxWidth } \cup
    { <<f, h, w>> : f \in 1..MaxFrames, h \in 1..MaxHeight, w \in 1..MaxWidth } \cup
    { <<1, f, h, w>> : f \in 1..MaxFrames, h \in 1..MaxHeight, w \in 1..MaxWidth }

RECURSIVE LinearIndex(_, _)
LinearIndex(idx, shape) ==
    IF idx = <<>> THEN 0
    ELSE LinearIndex(SubSeq(idx, 1, Len(idx) - 1), SubSeq(shape, 1, Len(shape) - 1))
             * shape[Len(shape)] + (idx[Len(idx)] - 1)

RECURSIVE SumSeq(_)
SumSeq(q) == IF q = <<>> THEN 0 ELSE q[1] + SumSeq(Tail(q))

Buffers ==
    { [shape |-> sh, data |-> [idx \in IndexSet(sh) |-> LinearIndex(idx, sh)]] : sh \in Shapes }
    \cup
    { [shape |-> sh, data |-> [idx \in IndexSet(sh) |-> SumSeq(idx) % 2]] : sh \in Shapes }

\* what numpy.empty may hold before it is assigned
Garbage == {0, 1}

PipeOff ==
    /\ argv = <<>>
    /\ args = <<>>
    /\ listing = <<>>
    /\ pc = "off"
    /\ prompts = <<>>
    /\ arguments = <<>>
    /\ run = <<>>
    /\ chunks = <<>>
    /\ taken = 0
    /\ worker = <<>>

InitScale ==
    /\ PipeOff
    /\ original_data \in Buffers
    /\ scale_arg \in Scales
    /\ processed_data = <<>>
    /\ frame_i = 0
    /\ spc = "start"

\* lines 76-77: a stack gets an empty array of the scaled shape
ScaleStack ==
    /\ spc = "start"
    /\ Ndim(original_data) = 3
    /\ LET shape == <<original_data.shape[1], original_data.shape[2] * scale_arg,
                      original_data.shape[3] * scale_arg>>
       IN  \E g \in Garbage :
             processed_data' = [shape |-> shape, data |-> [idx \in IndexSet(shape) |-> g]]
    /\ frame_i' = 0
    /\ spc' = "loop"
    /\ UNCHANGED <<original_data, scale_arg>>
    /\ UNCHANGED pipe_vars

\* lines 78-79: one turn of the frame loop (frame_i is range's 0-based i)
ScaleFrame ==
    /\ spc = "loop"
    /\ frame_i < original_data.shape[1]
    /\ processed_data' = SetFrame(processed_data, frame_i + 1,
                                  scale_image(Frame(original_data, frame_i + 1), scale_arg))
    /\ frame_i' = frame_i + 1
    /\ UNCHANGED <<original_data, scale_arg, spc>>
    /\ UNCHANGED pipe_vars

\* the frame loop ends
ScaleStackDone ==
    /\ spc = "loop"
    /\ frame_i = original_data.shape[1]
    /\ spc' = "scaled"
    /\ UNCHANGED <<original_data, processed_data, frame_i, scale_arg>>
    /\ UNCHANGED pipe_vars

\* lines 80-81: a single image
ScaleImage2D ==
    /\ spc = "start"
    /\ Ndim(original_data) = 2
    /\ processed_data' = scale_image(original_data, scale_arg)
    /\ spc' = "scaled"
    /\ UNCHANGED <<original_data, frame_i, scale_arg>>
    /\ UNCHANGED pipe_vars

\* lines 82-83: any other rank
ScaleReject ==
    /\ spc = "start"
    /\ Ndim(original_data) # 3
    /\ Ndim(original_data) # 2
    /\ spc' = "raised"
    /\ UNCHANGED <<original_data, processed_data, frame_i, scale_arg>>
    /\ UNCHANGED pipe_vars

NextScale ==
    \/ ScaleStack
    \/ ScaleFrame
    \/ ScaleStackDone
    \/ ScaleImage2D
    \/ ScaleReject

SpecScale == InitScale /\ [][NextScale]_vars

(***************************************************************************)
(* The claims.                                                             *)
(***************************************************************************)
Ended == pc \in {"done", "raised"}

DirMode == pc # "off" /\ IsDir(argv.input)
FileMode == pc # "off" /\ ~IsDir(argv.input)

\* the extension of a path, compared without regard to case
ExtNoCase(p) == Lower(SplitExt(p)[2])

NoForce == ~argv.force_tif /\ ~argv.force_mrc /\ ~argv.force_jpg

\* C1: in a finished batch in which one job failed, every other job was
\* processed to its end (it did not stay unprocessed).
C1_JobsIndependent ==
    LET failed == { j \in DOMAIN run : Raised(run[j]) }
    IN  (DirMode /\ Ended /\ Cardinality(failed) = 1)
            => \A j \in DOMAIN run \ failed : Returned(run[j])

\* C2: with the flip flag unset, every job's flip is true exactly when its
\* own input is MRC-family and its own output is TIFF-family.
C2_FlipPerJob ==
    (pc # "off" /\ argv.flip_tif = "None")
        => \A j \in DOMAIN arguments :
             arguments[j].flip_tif =
                 (/\ ExtNoCase(arguments[j].input_file) \in {EXT_MRC, EXT_MRCS}
                  /\ ExtNoCase(arguments[j].output_file) \in {EXT_TIF, EXT_TIFF})

\* C3: the output paths of the jobs of a directory run are pairwise distinct.
C3_DistinctOutputs ==
    DirMode => \A i, j \in DOMAIN arguments :
                   i # j => arguments[i].output_file # arguments[j].output_file

\* C4: process_file raises the unsupported-format error only for a path
\* whose extension, compared without regard to case, is none of mrc, mrcs,
\* tif, tiff, jpg.
C4_CaseInsensitive ==
    \A j \in DOMAIN run :
        /\ run[j].st = "raised_input" =>
               ExtNoCase(arguments[j].input_file)
                   \notin {EXT_MRC, EXT_MRCS, EXT_TIF, EXT_TIFF, EXT_JPG}
        /\ run[j].st = "raised_output" =>
               ExtNoCase(arguments[j].output_file)
                   \notin {EXT_MRC, EXT_MRCS, EXT_TIF, EXT_TIFF, EXT_JPG}

\* C5: with exactly one force flag set, every job's output path ends in the
\* forced extension.
C5_ForcedExtension ==
    LET forced == IF argv.force_tif THEN EXT_TIF
                  ELSE IF argv.force_mrc THEN EXT_MRC ELSE EXT_JPG
    IN  (/\ pc # "off"
         /\ Cardinality({ f \in {"tif", "mrc", "jpg"} :
                            \/ f = "tif" /\ argv.force_tif
                            \/ f = "mrc" /\ argv.force_mrc
                            \/ f = "jpg" /\ argv.force_jpg }) = 1)
            => \A j \in DOMAIN arguments : EndsWith(arguments[j].output_file, forced)

\* C6: a job whose input decoded to rank 3 and whose output is .jpg ends
\* with the stack-to-JPG error and has written nothing; and in a finished
\* batch the job after it in its task batch was processed.
C6_StackToJpg ==
    /\ \A j \in DOMAIN run :
         (/\ run[j].ndim = 3
          /\ OutputFormat(arguments[j].output_file) = "jpg"
          /\ run[j].st \notin {"pending", "scaled"})
             => (run[j].st = "jpg_stack" /\ run[j].written = <<>>)
    /\ \A j \in DOMAIN run : run[j].st = "jpg_stack" => run[j].ndim = 3
    /\ Ended =>
         \A c \in DOMAIN chunks : \A k \in 1..(Len(chunks[c]) - 1) :
             run[chunks[c][k]].st = "jpg_stack" => run[chunks[c][k + 1]].st # "pending"

\* C6's case: in a finished batch a job ended with the stack-to-JPG error,
\* and the next job of its task batch wrote its output.
C6_Witness ==
    /\ Ended
    /\ \E c \in DOMAIN chunks : \E k \in 1..(Len(chunks[c]) - 1) :
         /\ run[chunks[c][k]].st = "jpg_stack"
         /\ run[chunks[c][k + 1]].st = "written"

\* the path with the tag inserted immediately before its extension
TagBeforeExt(p, tag) == SplitExt(p)[1] \o tag \o SplitExt(p)[2]

C8_ValidateBeforeWrite ==
    \A j \in DOMAIN run :
        /\ Raised(run[j]) => run[j].written = <<>>
        /\ run[j].st \in {"pending", "scaled"} => run[j].written = <<>>
        /\ run[j].st = "raised_dims" => run[j].ndim \notin {2, 3}
        /\ run[j].st = "written" =>
               /\ run[j].written = <<arguments[j].output_file>>
               /\ run[j].ndim \in {2, 3}
               /\ InputSupported(arguments[j].input_file)

\* C8's case: in a finished directory run one job raised the
\* invalid-dimensions error and another wrote its file.
C8_Witness ==
    /\ DirMode /\ Ended
    /\ \E j \in DOMAIN run : run[j].st = "raised_dims" /\ run[j].written = <<>>
    /\ \E j \in DOMAIN run : run[j].st = "written"

\* C9: once scaled, a rank-2 array of shape (H, W) has shape (H*f, W*f) and
\* a rank-3 array of shape (F, H, W) has shape (F, H*f, W*f), and the
\* element at (..., y*f+dy, x*f+dx), dy and dx in [0, f), is the input's
\* element at (..., y, x) (0-based; the arrays here are indexed from 1).
C9_PixelReplication ==
    spc = "scaled" =>
        LET f == scale_arg
            nd == Ndim(original_data)
            H == original_data.shape[nd - 1]
            W == original_data.shape[nd]
        IN  /\ nd \in {2, 3}
            /\ processed_data.shape =
                   [original_data.shape EXCEPT ![nd - 1] = H * f, ![nd] = W * f]
            /\ \A idx \in IndexSet(original_data.shape) :
                 \A dy, dx \in 0..(f - 1) :
                     processed_data.data[[idx EXCEPT ![nd - 1] = (@ - 1) * f + dy + 1,
                                                     ![nd] = (@ - 1) * f + dx + 1]]
                         = original_data.data[idx]

\* C9's case: a stack of two frames of two rows and two columns was scaled.
C9_Witness ==
    /\ spc = "scaled"
    /\ original_data.shape = <<2, 2, 2>>
    /\ original_data.data[<<2, 2, 2>>] = 7

\* the run's input and resolved output are the same normalized path
SamePath ==
    \/ DirMode /\ argv.output # NoneOpt /\ IsDir(Val(argv.output))
       /\ NormPath(argv.input) = NormPath(Val(argv.output))
    \/ FileMode /\ pc # "start" /\ NormPath(args.input) = NormPath(Val(args.output))

\* the prompt was raised and answered y or Y
Confirmed == prompts # <<>> /\ Lower(prompts[1]) = <<"y">>

\* C10: when the input and the resolved output are the same normalized
\* path, nothing is processed before the prompt is answered y or Y; a run
\* that exited at the prompt was answered otherwise and has read, scaled
\* and written nothing; and a job writes over an input path of the run only
\* after the confirmation.
C10_SelfOverwriteGuard ==
    /\ (SamePath /\ pc \notin {"start", "dir_prompt", "file_prompt", "exited"}) => Confirmed
    /\ (SamePath /\ ~Confirmed) => (arguments = <<>> /\ run = <<>>)
    /\ pc = "exited" =>
         /\ SamePath
         /\ prompts # <<>>
         /\ Lower(prompts[1]) # <<"y">>
         /\ arguments = <<>>
         /\ run = <<>>
    /\ \A i, j \in DOMAIN arguments :
         (/\ run[i].written # <<>>
          /\ NormPath(arguments[i].output_file) = NormPath(arguments[j].input_file))
             => Confirmed

\* C10's case: a single-file run on a.tif with -o ./a.tif exited at the
\* prompt on the answer n.
C10_Witness ==
    /\ FileMode
    /\ pc = "exited"
    /\ prompts = << <<"n">> >>
    /\ argv.input = <<"a">> \o EXT_TIF
    /\ argv.output = Some(<<".", "/", "a">> \o EXT_TIF)

====
